---- MODULE Spec2Model ----
(***************************************************************************)
(* Model of streamlit_app.py, the "Excel Data Analyzer: Fund Insights"     *)
(* script.  One run of the script is: the file uploader returns a list of  *)
(* files, the loop reads each one, matches its column labels against       *)
(* COMMON_HEADERS, extracts the matching columns and concatenates them     *)
(* into all_data_df, and the tail of the script renders the analysis.      *)
(*                                                                         *)
(* A Python str is a sequence of one-character strings, so that strip,     *)
(* replace and lower are computed character by character.  A DataFrame is  *)
(* a record [columns, rows]: columns is the sequence of column labels      *)
(* (labels may repeat, as in pandas) and every row is a sequence of cells  *)
(* aligned with columns.                                                   *)
(***************************************************************************)
EXTENDS Integers, Sequences, FiniteSets, TLC

\* ------------------------------------------------------------------------
\* Bounds of the model
\* ------------------------------------------------------------------------
MaxFiles == 2
MaxRows == 1

\* ------------------------------------------------------------------------
\* Python str operations used by the script
\* ------------------------------------------------------------------------
\* A character is a one-character string for the printable ASCII characters
\* and "U+XXXX" for any other code point (and for the quotation mark, U+0022,
\* the backslash, U+005C, and the grave accent, U+0060).  The operations below are those of
\* Python on strings over Alphabet and are not defined on other characters.

\* the code points for which str.isspace() holds: strip() removes them
Whitespace ==
    {
      "U+0009", "U+000A", "U+000B", "U+000C", "U+000D", "U+001C", "U+001D",
      "U+001E", "U+001F", " ", "U+0085", "U+00A0", "U+1680", "U+2000",
      "U+2001", "U+2002", "U+2003", "U+2004", "U+2005", "U+2006", "U+2007",
      "U+2008", "U+2009", "U+200A", "U+2028", "U+2029", "U+202F", "U+205F",
      "U+3000"
    }

PrintableAscii ==
    {
      " ", "!", "U+0022", "#", "$", "%", "&", "'", "(", ")", "*", "+", ",",
      "-", ".", "/", "0", "1", "2", "3", "4", "5", "6", "7", "8", "9", ":",
      ";", "<", "=", ">", "?", "@", "A", "B", "C", "D", "E", "F", "G", "H",
      "I", "J", "K", "L", "M", "N", "O", "P", "Q", "R", "S", "T", "U", "V",
      "W", "X", "Y", "Z", "[", "U+005C", "]", "^", "_", "U+0060", "a", "b", "c",
      "d", "e", "f", "g", "h", "i", "j", "k", "l", "m", "n", "o", "p", "q",
      "r", "s", "t", "u", "v", "w", "x", "y", "z", "{", "|", "}", "~"
    }

\* the Latin-1 supplement, KELVIN SIGN, LATIN CAPITAL LETTER I WITH DOT ABOVE
\* and COMBINING DOT ABOVE
OtherCharacters ==
    {
      "U+00A1", "U+00A2", "U+00A3", "U+00A4", "U+00A5", "U+00A6", "U+00A7",
      "U+00A8", "U+00A9", "U+00AA", "U+00AB", "U+00AC", "U+00AD", "U+00AE",
      "U+00AF", "U+00B0", "U+00B1", "U+00B2", "U+00B3", "U+00B4", "U+00B5",
      "U+00B6", "U+00B7", "U+00B8", "U+00B9", "U+00BA", "U+00BB", "U+00BC",
      "U+00BD", "U+00BE", "U+00BF", "U+00C0", "U+00C1", "U+00C2", "U+00C3",
      "U+00C4", "U+00C5", "U+00C6", "U+00C7", "U+00C8", "U+00C9", "U+00CA",
      "U+00CB", "U+00CC", "U+00CD", "U+00CE", "U+00CF", "U+00D0", "U+00D1",
      "U+00D2", "U+00D3", "U+00D4", "U+00D5", "U+00D6", "U+00D7", "U+00D8",
      "U+00D9", "U+00DA", "U+00DB", "U+00DC", "U+00DD", "U+00DE", "U+00DF",
      "U+00E0", "U+00E1", "U+00E2", "U+00E3", "U+00E4", "U+00E5", "U+00E6",
      "U+00E7", "U+00E8", "U+00E9", "U+00EA", "U+00EB", "U+00EC", "U+00ED",
      "U+00EE", "U+00EF", "U+00F0", "U+00F1", "U+00F2", "U+00F3", "U+00F4",
      "U+00F5", "U+00F6", "U+00F7", "U+00F8", "U+00F9", "U+00FA", "U+00FB",
      "U+00FC", "U+00FD", "U+00FE", "U+00FF", "U+0130", "U+0307", "U+212A"
    }

Alphabet == PrintableAscii \cup Whitespace \cup OtherCharacters

\* the characters of Alphabet that str.lower() changes, each with its
\* lower-case form (U+0130 becomes two characters)
LowerCaseForms ==
    <<
      <<"A", <<"a">>>>, <<"B", <<"b">>>>, <<"C", <<"c">>>>,
      <<"D", <<"d">>>>, <<"E", <<"e">>>>, <<"F", <<"f">>>>,
      <<"G", <<"g">>>>, <<"H", <<"h">>>>, <<"I", <<"i">>>>,
      <<"J", <<"j">>>>, <<"K", <<"k">>>>, <<"L", <<"l">>>>,
      <<"M", <<"m">>>>, <<"N", <<"n">>>>, <<"O", <<"o">>>>,
      <<"P", <<"p">>>>, <<"Q", <<"q">>>>, <<"R", <<"r">>>>,
      <<"S", <<"s">>>>, <<"T", <<"t">>>>, <<"U", <<"u">>>>,
      <<"V", <<"v">>>>, <<"W", <<"w">>>>, <<"X", <<"x">>>>,
      <<"Y", <<"y">>>>, <<"Z", <<"z">>>>, <<"U+00C0", <<"U+00E0">>>>,
      <<"U+00C1", <<"U+00E1">>>>, <<"U+00C2", <<"U+00E2">>>>,
      <<"U+00C3", <<"U+00E3">>>>, <<"U+00C4", <<"U+00E4">>>>,
      <<"U+00C5", <<"U+00E5">>>>, <<"U+00C6", <<"U+00E6">>>>,
      <<"U+00C7", <<"U+00E7">>>>, <<"U+00C8", <<"U+00E8">>>>,
      <<"U+00C9", <<"U+00E9">>>>, <<"U+00CA", <<"U+00EA">>>>,
      <<"U+00CB", <<"U+00EB">>>>, <<"U+00CC", <<"U+00EC">>>>,
      <<"U+00CD", <<"U+00ED">>>>, <<"U+00CE", <<"U+00EE">>>>,
      <<"U+00CF", <<"U+00EF">>>>, <<"U+00D0", <<"U+00F0">>>>,
      <<"U+00D1", <<"U+00F1">>>>, <<"U+00D2", <<"U+00F2">>>>,
      <<"U+00D3", <<"U+00F3">>>>, <<"U+00D4", <<"U+00F4">>>>,
      <<"U+00D5", <<"U+00F5">>>>, <<"U+00D6", <<"U+00F6">>>>,
      <<"U+00D8", <<"U+00F8">>>>, <<"U+00D9", <<"U+00F9">>>>,
      <<"U+00DA", <<"U+00FA">>>>, <<"U+00DB", <<"U+00FB">>>>,
      <<"U+00DC", <<"U+00FC">>>>, <<"U+00DD", <<"U+00FD">>>>,
      <<"U+00DE", <<"U+00FE">>>>, <<"U+0130", <<"i", "U+0307">>>>,
      <<"U+212A", <<"k">>>>
    >>

\* c.lower() for every character of Alphabet
ToLower ==
    [c \in Alphabet |->
        IF \E k \in 1..Len(LowerCaseForms) : LowerCaseForms[k][1] = c
        THEN LowerCaseForms[CHOOSE k \in 1..Len(LowerCaseForms) :
                               LowerCaseForms[k][1] = c][2]
        ELSE <<c>>]

LowerChar(c) == ToLower[c]

\* str.lower()
RECURSIVE lower(_)
lower(s) == IF s = <<>> THEN <<>> ELSE LowerChar(Head(s)) \o lower(Tail(s))

RECURSIVE lstrip(_)
lstrip(s) ==
    IF s = <<>> THEN s
    ELSE IF Head(s) \in Whitespace THEN lstrip(Tail(s)) ELSE s

RECURSIVE rstrip(_)
rstrip(s) ==
    IF s = <<>> THEN s
    ELSE IF s[Len(s)] \in Whitespace THEN rstrip(SubSeq(s, 1, Len(s) - 1)) ELSE s

\* str.strip()
strip(s) == rstrip(lstrip(s))

\* str.replace('.', '')
replace_period(s) == SelectSeq(s, LAMBDA c : c # ".")

\* ------------------------------------------------------------------------
\* Program constants
\* ------------------------------------------------------------------------
COMMON_HEADERS ==
    <<
    <<"D","o","m","i","c","i","l","e">>,
    <<"L","e","g","a","l"," ","S","t","a","t","u","s">>,
    <<"P","r","o","m","o","t","e","r","/","I","n","i","t","i","a","t","o","r">>,
    <<"M","o","n","t","e","r","e","y"," ","S","c","h","e","m","e","l","D">>,
    <<"F","u","n","d"," ","N","a","m","e">>,
    <<"S","u","b","-","F","u","n","d"," ","N","a","m","e">>,
    <<"R","e","g","i","o","n"," ","&"," ","C","a","t","e","g","o","r","y">>,
    <<"I","n","d","u","s","t","r","y">>,
    <<"A","s","s","e","t"," ","A","l","l","o","c","a","t","i","o","n">>,
    <<"F","u","n","d"," ","O","f"," ","F","u","n","d","s"," ","/"," ","F","u","n","d"," ","o","f"," ","H","e","d","g","e"," ","F","u","n","d","s">>,
    <<"M","a","s","t","e","r","/","F","e","e","d","e","r">>,
    <<"M","o","n","t","e","r","e","y"," ","A","d","m","i","n"," ","I","D">>,
    <<"A","d","m","i","n","i","s","t","r","a","t","o","r"," ","L","o","c","a","t","i","o","n">>,
    <<"M","o","n","t","e","r","e","y"," ","A","u","d","i","t"," ","I","D">>,
    <<"A","u","d","i","t","o","r">>,
    <<"A","u","d","i","t","o","r"," ","L","o","c","a","t","i","o","n">>,
    <<"M","o","n","t","e","r","e","y"," ","L","e","g"," ","I","D">>,
    <<"L","e","g","a","l"," ","A","d","v","i","s","e","r">>,
    <<"L","e","g","a","l"," ","A","d","v","i","s","e","r"," ","L","o","c","a","t","i","o","n">>,
    <<"T","r","a","n","s","f","e","r"," ","A","g","e","n","t">>,
    <<"M","o","n","t","e","r","e","y"," ","M","a","n","C","o","/","A","I","F","M"," ","I","D">>,
    <<"M","a","n","C","o","/","A","l","F","M"," ","L","o","c","a","t","i","o","n">>,
    <<"M","a","n","C","o","/","A","I","F","M"," ","P","a","r","e","n","t"," ","O","r","i","g","i","n">>,
    <<"M","a","n","C","o","/","A","I","F","M"," ","T","h","i","r","d"," ","P","a","r","t","y">>,
    <<"R","e","g","i","s","t","e","r","e","d"," ","A","I","F","M">>,
    <<"S","e","l","f"," ","M","a","n","a","g","e","d">>,
    <<"F","u","n","d"," ","V","i","n","t","a","g","e"," ","Y","e","a","r","/","L","a","u","n","c","h"," ","D","a","t","e">>,
    <<"S","u","b","-","F","u","n","d"," ","V","i","n","t","a","g","e"," ","Y","e","a","r","/","L","a","u","n","c","h"," ","D","a","t","e">>,
    <<"P","r","o","m","o","t","e","r"," ","O","r","i","g","i","n"," ","C","o","d","e">>,
    <<"A","d","m","i","n","i","s","t","r","a","t","o","r">>,
    <<"U","C","I","T","S","/"," ","A","I","F">>,
    <<"T","N","A","V"," ","U","S","D">>,
    <<"U","S","S"," ","T","N","A","V">>
    >>

Domicile == <<"D","o","m","i","c","i","l","e">>

LegalStatus == <<"L","e","g","a","l"," ","S","t","a","t","u","s">>

FundName == <<"F","u","n","d"," ","N","a","m","e">>

PromoterInitiator == <<"P","r","o","m","o","t","e","r","/","I","n","i","t","i","a","t","o","r">>

Industry == <<"I","n","d","u","s","t","r","y">>

AssetAllocation == <<"A","s","s","e","t"," ","A","l","l","o","c","a","t","i","o","n">>

SourceFile == <<"S","o","u","r","c","e"," ","F","i","l","e">>

\* ------------------------------------------------------------------------
\* pandas operations used by the script
\* ------------------------------------------------------------------------
\* a blank cell, and the fill value of a column a frame does not have
NaN == "NaN"

\* pd.DataFrame()
EmptyDataFrame == [columns |-> <<>>, rows |-> <<>>]

\* DataFrame.empty: some axis has length 0
empty(df) == Len(df.columns) = 0 \/ Len(df.rows) = 0

Labels(columns) == {columns[k] : k \in 1..Len(columns)}

HasDuplicates(columns) ==
    \E j, k \in 1..Len(columns) : j # k /\ columns[j] = columns[k]

\* positions of the columns carrying a label, in frame order
Positions(columns, label) ==
    SelectSeq([k \in 1..Len(columns) |-> k], LAMBDA k : columns[k] = label)

RECURSIVE FlatPositions(_, _)
FlatPositions(columns, keys) ==
    IF keys = <<>> THEN <<>>
    ELSE Positions(columns, Head(keys)) \o FlatPositions(columns, Tail(keys))

\* df[keys] with a list of labels: for every key in turn, every column that
\* carries it (a repeated key or a repeated label yields repeated columns)
getitem(df, keys) ==
    LET pos == FlatPositions(df.columns, keys)
    IN [columns |-> [k \in 1..Len(pos) |-> df.columns[pos[k]]],
        rows |-> [r \in 1..Len(df.rows) |->
                    [k \in 1..Len(pos) |-> df.rows[r][pos[k]]]]]

\* df[label] = scalar: sets every column carrying the label, or appends one
setitem(df, label, value) ==
    IF label \in Labels(df.columns)
    THEN [columns |-> df.columns,
          rows |-> [r \in 1..Len(df.rows) |->
                      [k \in 1..Len(df.columns) |->
                          IF df.columns[k] = label THEN value ELSE df.rows[r][k]]]]
    ELSE [columns |-> Append(df.columns, label),
          rows |-> [r \in 1..Len(df.rows) |-> Append(df.rows[r], value)]]

\* union of two unique indexes, sort=False: first's labels, then the new ones
UnionColumns(a, b) == a \o SelectSeq(b, LAMBDA c : c \notin Labels(a))

\* rows of df laid out on new_columns, NaN where df has no such column
Reindex(df, new_columns) ==
    [r \in 1..Len(df.rows) |->
        [k \in 1..Len(new_columns) |->
            IF new_columns[k] \in Labels(df.columns)
            THEN df.rows[r][Positions(df.columns, new_columns[k])[1]]
            ELSE NaN]]

\* the assignment all_data_df = extracted_df: the rows so far are lost
concat_drops_accumulated(a, b) == [raises |-> FALSE, df |-> b]

\* pd.concat([a, b], ignore_index=True).  Frames of shape (0, 0) are dropped
\* first; frames with equal columns are stacked as they are; otherwise the
\* columns are united and every frame is reindexed, which raises
\* InvalidIndexError on a frame whose column labels repeat.
concat(a, b) ==
    LET a_kept == Len(a.columns) + Len(a.rows) > 0
        b_kept == Len(b.columns) + Len(b.rows) > 0
    IN  IF ~a_kept /\ ~b_kept THEN [raises |-> FALSE, df |-> EmptyDataFrame]
        ELSE IF ~a_kept THEN [raises |-> FALSE, df |-> b]
        ELSE IF ~b_kept THEN [raises |-> FALSE, df |-> a]
        ELSE IF a.columns = b.columns
        THEN [raises |-> FALSE,
              df |-> [columns |-> a.columns, rows |-> a.rows \o b.rows]]
        ELSE IF HasDuplicates(a.columns) \/ HasDuplicates(b.columns)
        THEN [raises |-> TRUE, df |-> a]
        ELSE LET cols == UnionColumns(a.columns, b.columns)
             IN [raises |-> FALSE,
                 df |-> [columns |-> cols,
                         rows |-> Reindex(a, cols) \o Reindex(b, cols)]]


\* ------------------------------------------------------------------------
\* Inputs: what the uploader and pd.read_excel can hand to the script
\* ------------------------------------------------------------------------
FileNames == {"funds_a.xlsx", "funds_b.xlsx"}

\* The upload lists of n files.  The script only copies a file name (into
\* 'Source File' and into messages), so the lists are taken up to renaming:
\* the first file is funds_a.xlsx, later files repeat that name or not.
UploadLists(n) ==
    {names \in [1..n -> FileNames] : n > 0 => names[1] = "funds_a.xlsx"}

\* header rows of the sheets, as read_excel returns them (labels of one sheet
\* are distinct: read_excel renames a repeated header to "name.1")
StrHeaderRows ==
    {
      <<<<"D","o","m","i","c","i","l","e">>,
        <<"L","e","g","a","l"," ","S","t","a","t","u","s">>>>,
      <<<<"U+00A0","d","o","m","i","c","i","l","e"," ","U+0009">>,
        <<"F","u","n","d"," ","N","a","m","e">>>>,
      <<<<"D","O","M","I","C","I","L","E">>,
        <<"L","e","g","a","l"," ","S","t","a","t","u","s",".">>>>,
      <<<<"D","o","m","i","c","i","l","e">>,
        <<"D","O","M","I","C","I","L","E">>>>,
      <<<<"U+000C","D","o","m","i","c","i","l","e">>,
        <<"D","o","m","i","c","i","l","e">>>>,
      <<<<"U+00C9","t","a","t">>,
        <<"D","o","m","i","c","i","l","e",".","1">>>>,
      <<<<"F","u","n","d"," ","N","a","m","e">>,
        <<"I","n","d","u","s","t","r","y">>>>
    }

\* a sheet whose first header cell is the number 2020 (shown by its str())
NonStrHeaderRow == <<<<"2","0","2","0">>, <<"D","o","m","i","c","i","l","e">>>>

CellValues == <<"IE", "LU", NaN>>

\* the cells of a sheet with n data rows; v shifts the pattern of values
Cells(ncols, n, v) ==
    [r \in 1..n |->
        [c \in 1..ncols |-> CellValues[((v + r + c) % Len(CellValues)) + 1]]]

Variants == {0, 1}

\* Results of pd.read_excel(uploaded_file): it raises (not a workbook), or it
\* returns a frame.  non_str_labels: some column label is not a str, which is
\* the case of a numeric header cell, and of the RangeIndex columns that
\* DataFrame() carries for a sheet without cells in pandas >= 2 (in pandas 1
\* those columns are an empty object Index).
ReadResults ==
    {[raises |-> TRUE, non_str_labels |-> FALSE, df |-> EmptyDataFrame]}
    \cup {[raises |-> FALSE, non_str_labels |-> b, df |-> EmptyDataFrame] :
            b \in BOOLEAN}
    \cup {[raises |-> FALSE, non_str_labels |-> FALSE,
           df |-> [columns |-> h, rows |-> Cells(Len(h), n, v)]] :
            h \in StrHeaderRows, n \in 0..MaxRows, v \in Variants}
    \cup {[raises |-> FALSE, non_str_labels |-> TRUE,
           df |-> [columns |-> NonStrHeaderRow,
                   rows |-> Cells(Len(NonStrHeaderRow), n, v)]] :
            n \in 0..MaxRows, v \in Variants}

\* ------------------------------------------------------------------------
\* The body of the file loop
\* ------------------------------------------------------------------------
\* df.columns.str.strip() then .str.replace('.', '', regex=False)
normalize_columns(columns) ==
    [k \in 1..Len(columns) |-> replace_period(strip(columns[k]))]

\* the comparison without lower(): a header matches in its exact case only
matching_cols_case_sensitive(columns, header) ==
    SelectSeq(columns, LAMBDA col : col = header)

\* the first character of s.lower(): the lower-case form of a character is
\* never empty, so it is the first character of the form of s[1]
FirstOfLower(s) == IF s = <<>> THEN <<>> ELSE <<LowerChar(s[1])[1]>>

\* [col for col in df.columns if col.lower() == header.lower()]
\* (strings whose lower-case forms begin differently are told apart before
\* the two forms are built and compared)
matching_cols(columns, header) ==
    SelectSeq(columns,
              LAMBDA col : /\ FirstOfLower(col) = FirstOfLower(header)
                           /\ lower(col) = lower(header))

\* for name in names: if matching_cols: append(matching_cols[0])
RECURSIVE FirstMatches(_, _)
FirstMatches(columns, names) ==
    IF names = <<>> THEN <<>>
    ELSE LET m == matching_cols(columns, Head(names))
         IN (IF m # <<>> THEN <<m[1]>> ELSE <<>>)
            \o FirstMatches(columns, Tail(names))

\* the loop over COMMON_HEADERS
current_file_headers(columns) == FirstMatches(columns, COMMON_HEADERS)

\* the loop over ['Domicile', 'Legal Status'] + the other headers found
cols_to_extract(columns, headers) ==
    FirstMatches(columns,
                 <<Domicile, LegalStatus>>
                 \o SelectSeq(headers,
                              LAMBDA h : h \notin {Domicile, LegalStatus}))

\* the counter incremented before pd.concat is called: a raising concat
\* leaves the file counted
extract_and_concat_counts_first(df, headers, name, all_df, count) ==
    LET cols == cols_to_extract(df.columns, headers)
        extracted_df == setitem(getitem(df, cols), SourceFile, name)
        c == concat(all_df, extracted_df)
    IN  IF c.raises
        THEN [outcome |-> "error", cols_to_extract |-> cols,
              extracted |-> <<>>,
              all_data_df |-> all_df, processed_files_count |-> count + 1]
        ELSE [outcome |-> "success", cols_to_extract |-> cols,
              extracted |-> cols,
              all_data_df |-> c.df, processed_files_count |-> count + 1]

\* df[cols_to_extract].copy(), the 'Source File' tag, pd.concat and the
\* increment of the counter; an exception leaves both variables as they were.
\* cols_to_extract is the list built before the extraction, extracted the
\* list that "Extracted headers from this file" shows after it.
extract_and_concat(df, headers, name, all_df, count) ==
    LET cols == cols_to_extract(df.columns, headers)
        extracted_df == setitem(getitem(df, cols), SourceFile, name)
        c == concat(all_df, extracted_df)
    IN  IF c.raises
        THEN [outcome |-> "error", cols_to_extract |-> cols,
              extracted |-> <<>>,
              all_data_df |-> all_df, processed_files_count |-> count]
        ELSE [outcome |-> "success", cols_to_extract |-> cols,
              extracted |-> cols,
              all_data_df |-> c.df, processed_files_count |-> count + 1]

\* one iteration of "for i, uploaded_file in enumerate(uploaded_files)":
\* the state after it and the message it leaves on the page
loop_body(read, name, all_df, count, found) ==
    IF read.raises \/ read.non_str_labels
    THEN [outcome |-> "error", cols_to_extract |-> <<>>, extracted |-> <<>>,
          all_data_df |-> all_df, processed_files_count |-> count,
          found_headers_across_files |-> found]
    ELSE LET df == [columns |-> normalize_columns(read.df.columns),
                    rows |-> read.df.rows]
             headers == current_file_headers(df.columns)
             r == extract_and_concat(df, headers, name, all_df, count)
         IN  IF headers = <<>>
             THEN [outcome |-> "skipped", cols_to_extract |-> <<>>,
                   extracted |-> <<>>,
                   all_data_df |-> all_df, processed_files_count |-> count,
                   found_headers_across_files |-> found]
             ELSE [outcome |-> r.outcome,
                   cols_to_extract |-> r.cols_to_extract,
                   extracted |-> r.extracted,
                   all_data_df |-> r.all_data_df,
                   processed_files_count |-> r.processed_files_count,
                   found_headers_across_files |-> found \cup Labels(headers)]


\* ------------------------------------------------------------------------
\* The report rendered after the loop
\* ------------------------------------------------------------------------
\* DataFrame.head() and Series.head() keep the first five entries
HeadRows == 5

head(rows) == SubSeq(rows, 1, IF Len(rows) < HeadRows THEN Len(rows) ELSE HeadRows)

\* the analysed fields in page order, and whether their value_counts() call
\* keeps NaN (dropna=False) or drops it (the default)
AnalysisFields ==
    <<Domicile, LegalStatus, FundName, PromoterInitiator, Industry,
      AssetAllocation>>

KeepsNaN(field) == field \notin {FundName, PromoterInitiator}

\* the fields whose counts are shown as value_counts().head() only
ShowsHeadOnly(field) == field \in {FundName, PromoterInitiator}

\* all_data_df[field]: a Series of cells when one column carries the label,
\* a frame (here: a tuple of cells per row) when several do
select(df, field) ==
    LET pos == Positions(df.columns, field)
    IN [r \in 1..Len(df.rows) |->
           IF Len(pos) = 1 THEN df.rows[r][pos[1]]
           ELSE [k \in 1..Len(pos) |-> df.rows[r][pos[k]]]]

\* the distinct values of a sequence, in the order of their first occurrence
RECURSIVE unique(_)
unique(values) ==
    IF values = <<>> THEN <<>>
    ELSE LET front == unique(SubSeq(values, 1, Len(values) - 1))
             last == values[Len(values)]
         IN IF \E k \in 1..Len(front) : front[k] = last THEN front
            ELSE Append(front, last)

\* sort_values(ascending=False) of a set of <<value, count>> pairs: the
\* orders by descending count.  The sort is kind='quicksort', which is not
\* stable, so pairs of equal count may come out in any order.
RECURSIVE sort_values(_)
sort_values(pairs) ==
    IF pairs = {} THEN {<<>>}
    ELSE LET first == {p \in pairs : \A q \in pairs : q[2] <= p[2]}
         IN UNION {{<<p>> \o rest : rest \in sort_values(pairs \ {p})} :
                   p \in first}

\* value_counts(dropna=...), followed or not by sort_values(ascending=False):
\* <<value, count>> for every value, the most frequent first; the set of
\* the orders the sort may give to values of equal count
value_counts(values, is_frame, dropna) ==
    LET isna(v) == IF is_frame THEN \E k \in 1..Len(v) : v[k] = NaN
                   ELSE v = NaN
        kept == SelectSeq(values, LAMBDA v : ~dropna \/ ~isna(v))
        keys == unique(kept)
    IN sort_values({<<keys[j],
                      Cardinality({r \in 1..Len(kept) : kept[r] = keys[j]})>> :
                    j \in 1..Len(keys)})

\* nunique(): the number of distinct values that are not NaN, per column
nunique(df, field) ==
    LET pos == Positions(df.columns, field)
    IN [k \in 1..Len(pos) |->
           Cardinality({df.rows[r][pos[k]] : r \in 1..Len(df.rows)} \ {NaN})]

\* Stages of the report at which the run may end with an exception raised
\* outside this script; 0 stands for a run that renders everything.
\* Stage 1 is st.dataframe(all_data_df.head()): the Arrow serialization of
\* streamlit refuses a frame whose column labels repeat, the older one
\* accepts it.  Stage k + 1 is analysis section k: when several columns carry
\* its label the selection is a frame, not a Series: DataFrame.value_counts
\* is missing before pandas 1.1 and refuses dropna before 1.3 (the section
\* raises), later it counts the rows as tuples, and what the display and
\* plotting calls do with such counts is decided by their libraries.  Stage
\* 0 stays possible for such a frame: no line of the script raises by
\* itself.
CrashPoints(df) ==
    {0}
    \cup {s \in {1} : HasDuplicates(df.columns)}
    \cup {k + 1 : k \in {j \in 1..Len(AnalysisFields) :
                           Len(Positions(df.columns, AnalysisFields[j])) > 1}}

\* one analysis section.  Only 'Domicile' and 'Legal Status' have an else
\* branch (st.info "No ... column found in the consolidated data.") and a
\* "Top 5"; 'Fund Name' and 'Promoter/Initiator' show the head of the counts.
\* The set of what the section may show: one element per order of the counts.
section(df, k, crash) ==
    LET field == AnalysisFields[k]
        is_frame == Len(Positions(df.columns, field)) > 1
        orders == value_counts(select(df, field), is_frame, ~KeepsNaN(field))
    IN  IF crash # 0 /\ k + 1 > crash THEN {[kind |-> "not_rendered"]}
        ELSE IF k + 1 = crash THEN {[kind |-> "exception"]}
        ELSE IF field \in Labels(df.columns)
        THEN IF field \in {Domicile, LegalStatus}
             THEN {[kind |-> "distribution", counts |-> counts,
                    top |-> head(counts), nunique |-> nunique(df, field)] :
                   counts \in orders}
             ELSE {[kind |-> "distribution",
                    counts |-> IF ShowsHeadOnly(field) THEN head(counts)
                               ELSE counts,
                    nunique |-> nunique(df, field)] :
                   counts \in orders}
        ELSE IF field \in {Domicile, LegalStatus} THEN {[kind |-> "info"]}
        ELSE {[kind |-> "absent"]}

\* the first k analysis sections, in page order: every combination of what
\* each of them may show
RECURSIVE sections(_, _, _)
sections(df, k, crash) ==
    IF k = 0 THEN {<<>>}
    ELSE {Append(front, last) : front \in sections(df, k - 1, crash),
                                last \in section(df, k, crash)}

\* everything below the loop: the three branches of
\* "if uploaded_files: ... if not all_data_df.empty: ... elif ... else";
\* the set of the pages the run may show
render(files, all_df, count, found, crash) ==
    IF files = <<>>
    THEN {[outcome |-> "prompt"]}
    ELSE IF ~empty(all_df)
    THEN {[outcome |-> "analysis",
           success_n |-> count,
           preview |-> IF crash = 1 THEN "exception" ELSE "shown",
           preview_rows |-> IF crash = 1 THEN <<>> ELSE head(all_df.rows),
           sections |-> shown,
           summary |-> IF crash # 0 THEN "not_rendered"
                       ELSE IF found # {} THEN "headers" ELSE "warning",
           summary_headers |-> IF crash = 0 THEN found ELSE {}] :
          shown \in sections(all_df, Len(AnalysisFields), crash)}
    ELSE {[outcome |-> "warning"]}

\* ------------------------------------------------------------------------
\* State and steps of one run of the script
\* ------------------------------------------------------------------------
VARIABLES
    uploaded_files,              \* names of the files the uploader returned
    i,                           \* number of loop iterations completed
    all_data_df,
    processed_files_count,
    found_headers_across_files,
    reads,                       \* what pd.read_excel gave for each file so far
    log,                         \* per file: the message the loop body wrote
    screen,                      \* the report below the loop
    pc

vars ==
    <<uploaded_files, i, all_data_df, processed_files_count,
      found_headers_across_files, reads, log, screen, pc>>

Init ==
    /\ uploaded_files = <<>>
    /\ i = 0
    /\ all_data_df = EmptyDataFrame
    /\ processed_files_count = 0
    /\ found_headers_across_files = {}
    /\ reads = <<>>
    /\ log = <<>>
    /\ screen = [outcome |-> "none"]
    /\ pc = "upload"

\* st.file_uploader(..., accept_multiple_files=True) returns the upload list
FileUploader ==
    /\ pc = "upload"
    /\ \E n \in 0..MaxFiles :
         \E names \in UploadLists(n) :
            /\ uploaded_files' = names
            /\ pc' = IF n = 0 THEN "render" ELSE "loop"
    /\ UNCHANGED <<i, all_data_df, processed_files_count,
                   found_headers_across_files, reads, log, screen>>

\* one iteration of the file loop, try/except/finally included
LoopIteration ==
    /\ pc = "loop"
    /\ i < Len(uploaded_files)
    /\ \E read \in ReadResults :
         \E r \in {loop_body(read, uploaded_files[i + 1], all_data_df,
                             processed_files_count,
                             found_headers_across_files)} :
             /\ all_data_df' = r.all_data_df
             /\ processed_files_count' = r.processed_files_count
             /\ found_headers_across_files' = r.found_headers_across_files
             /\ reads' = Append(reads, read)
             /\ log' = Append(log, [file |-> uploaded_files[i + 1],
                                    outcome |-> r.outcome,
                                    cols_to_extract |-> r.cols_to_extract,
                                    extracted |-> r.extracted])
    /\ i' = i + 1
    /\ pc' = IF i + 1 = Len(uploaded_files) THEN "render" ELSE "loop"
    /\ UNCHANGED <<uploaded_files, screen>>

\* the script below the loop
Render ==
    /\ pc = "render"
    /\ \E crash \in CrashPoints(all_data_df) :
         \E page \in render(uploaded_files, all_data_df,
                             processed_files_count,
                             found_headers_across_files, crash) :
             screen' = page
    /\ pc' = "done"
    /\ UNCHANGED <<uploaded_files, i, all_data_df, processed_files_count,
                   found_headers_across_files, reads, log>>

Next == FileUploader \/ LoopIteration \/ Render

Spec == Init /\ [][Next]_vars


\* ------------------------------------------------------------------------
\* Vocabulary of the properties
\* ------------------------------------------------------------------------
AfterLoop == pc \in {"render", "done"}

Succeeded(k) == log[k].outcome = "success"

\* the name of a sheet column after strip() and the removal of periods
NormalizedName(c) == replace_period(strip(c))

\* column c of a sheet is a case-insensitive match of header h
MatchesHeader(c, h) == lower(NormalizedName(c)) = lower(h)

\* the lower-case forms of the headers of COMMON_HEADERS
LowerHeaders == [k \in 1..Len(COMMON_HEADERS) |-> lower(COMMON_HEADERS[k])]

\* the headers (by position in COMMON_HEADERS) that a normalized name equals
\* when both are lower-cased
HeadersOfName(n) ==
    UNION {{k \in 1..Len(COMMON_HEADERS) : ln = LowerHeaders[k]} :
             ln \in {lower(n)}}

\* the headers that column c of a sheet matches
MatchedHeaders(c) == HeadersOfName(NormalizedName(c))

\* the columns of the sheet read in iteration k
SheetColumns(k) == reads[k].df.columns

\* ------------------------------------------------------------------------
\* C1
\* ------------------------------------------------------------------------
\* pd.read_excel returned a frame for the file of iteration k
ReadWithoutError(k) == ~reads[k].raises

\* the header line of the file of iteration k holds a label that is not a
\* str: ', '.join(df.columns.tolist()) or df.columns.str raises before any
\* header is matched
HeaderLineRaises(k) == reads[k].non_str_labels

\* C1 as stated: in every file that was read without error, EVERY column
\* that matches a header of COMMON_HEADERS (after strip, removal of periods
\* and lower-casing) is in cols_to_extract, and every column of
\* cols_to_extract matches some header.
C1_EveryMatchingColumnExtracted ==
    \A k \in 1..Len(log) :
        ReadWithoutError(k) =>
            /\ \A c \in 1..Len(SheetColumns(k)) :
                 MatchedHeaders(SheetColumns(k)[c]) # {}
                 => NormalizedName(SheetColumns(k)[c])
                        \in Labels(log[k].cols_to_extract)
            /\ \A e \in Labels(log[k].cols_to_extract) : HeadersOfName(e) # {}

\* C1 amended: in every file that was read without error,
\*  - if every label of the header line is a str: for every header of
\*    COMMON_HEADERS that some column matches, the FIRST matching column (in
\*    sheet order) is in cols_to_extract, whether or not the concatenation
\*    that follows succeeds; and every column of cols_to_extract is the
\*    normalized name of a sheet column that matches some header;
\*  - if some label of the header line is not a str: the file is reported
\*    as an error and no column of it is extracted, matching or not.
C1_FirstMatchingColumnExtracted ==
    \A k \in 1..Len(log) :
        ReadWithoutError(k) =>
            IF HeaderLineRaises(k)
            THEN /\ log[k].outcome = "error"
                 /\ log[k].cols_to_extract = <<>>
            ELSE /\ \A c \in 1..Len(SheetColumns(k)) :
                      \A h \in MatchedHeaders(SheetColumns(k)[c]) :
                         (\A d \in 1..(c - 1) :
                             h \notin MatchedHeaders(SheetColumns(k)[d]))
                         => NormalizedName(SheetColumns(k)[c])
                                \in Labels(log[k].cols_to_extract)
                 /\ \A e \in Labels(log[k].cols_to_extract) :
                      \E c \in 1..Len(SheetColumns(k)) :
                         /\ NormalizedName(SheetColumns(k)[c]) = e
                         /\ HeadersOfName(e) # {}

\* a processed file whose header differs from 'Domicile' in case and in
\* surrounding whitespace and whose column was extracted all the same,
\* together with a file that was read without error, whose concatenation
\* raised, and whose cols_to_extract holds its first column matching
\* 'Domicile'
C1_Witness ==
    /\ \E k \in 1..Len(log) :
        /\ Succeeded(k)
        /\ \E c \in 1..Len(SheetColumns(k)) :
             /\ SheetColumns(k)[c] # Domicile
             /\ strip(SheetColumns(k)[c]) # SheetColumns(k)[c]
             /\ MatchesHeader(SheetColumns(k)[c], Domicile)
             /\ NormalizedName(SheetColumns(k)[c])
                    \in Labels(log[k].cols_to_extract)
             /\ NormalizedName(SheetColumns(k)[c]) # Domicile
    /\ \E m \in 1..Len(log) :
        /\ ReadWithoutError(m)
        /\ ~HeaderLineRaises(m)
        /\ log[m].outcome = "error"
        /\ \E c \in 1..Len(SheetColumns(m)) :
             /\ MatchesHeader(SheetColumns(m)[c], Domicile)
             /\ NormalizedName(SheetColumns(m)[c])
                    \in Labels(log[m].cols_to_extract)


\* ------------------------------------------------------------------------
\* C2
\* ------------------------------------------------------------------------
\* <<k, r>> for every data row r of every processed file k, in upload order
RECURSIVE RowOrigins(_)
RowOrigins(k) ==
    IF k = 0 THEN <<>>
    ELSE RowOrigins(k - 1)
         \o (IF Succeeded(k)
             THEN [r \in 1..Len(reads[k].df.rows) |-> <<k, r>>]
             ELSE <<>>)

\* the cell the consolidated table must hold in a column labelled label for
\* row r of file k: the file's cell if the file has one such column that was
\* extracted, NaN if the file did not contribute the column
ExpectedCell(k, r, label) ==
    LET src == {c \in 1..Len(SheetColumns(k)) :
                  NormalizedName(SheetColumns(k)[c]) = label}
    IN  IF label \notin Labels(log[k].extracted) THEN {NaN}
        ELSE IF Cardinality(src) = 1
        THEN {reads[k].df.rows[r][CHOOSE c \in src : TRUE]}
        ELSE {reads[k].df.rows[r][c] : c \in src}

\* C2: when the loop has ended, all_data_df holds exactly the rows of the
\* files that were processed successfully, in upload order: as many rows as
\* those files have together, each tagged in 'Source File' with the name of
\* its file and carrying the cells of its file.
C2_ConsolidatedRows ==
    AfterLoop =>
        LET origins == RowOrigins(Len(log))
        IN  /\ Len(all_data_df.rows) = Len(origins)
            /\ \A j \in 1..Len(origins) :
                 LET k == origins[j][1]
                     r == origins[j][2]
                 IN  /\ Positions(all_data_df.columns, SourceFile) # <<>>
                     /\ \A p \in 1..Len(all_data_df.columns) :
                          IF all_data_df.columns[p] = SourceFile
                          THEN all_data_df.rows[j][p] = uploaded_files[k]
                          ELSE all_data_df.rows[j][p]
                                 \in ExpectedCell(k, r, all_data_df.columns[p])

\* the loop has ended with rows of two processed files that bear different
\* names and brought different columns
C2_Witness ==
    /\ AfterLoop
    /\ \E k, m \in 1..Len(log) :
         /\ k < m
         /\ Succeeded(k) /\ Succeeded(m)
         /\ uploaded_files[k] # uploaded_files[m]
         /\ reads[k].df.rows # <<>> /\ reads[m].df.rows # <<>>
         /\ log[k].extracted # log[m].extracted

\* ------------------------------------------------------------------------
\* C3
\* ------------------------------------------------------------------------
\* processed files with rows that have a column matching the field
FilesWith(field) ==
    {k \in 1..Len(log) :
        /\ Succeeded(k)
        /\ reads[k].df.rows # <<>>
        /\ \E c \in 1..Len(SheetColumns(k)) : MatchesHeader(SheetColumns(k)[c], field)}

\* how often value v stands in the first column of file k matching the field
OccurrencesIn(k, field, v) ==
    LET c == CHOOSE c \in 1..Len(SheetColumns(k)) :
                /\ MatchesHeader(SheetColumns(k)[c], field)
                /\ \A d \in 1..(c - 1) : ~MatchesHeader(SheetColumns(k)[d], field)
    IN Cardinality({r \in 1..Len(reads[k].df.rows) : reads[k].df.rows[r][c] = v})

RECURSIVE SumOver(_, _, _)
SumOver(files, field, v) ==
    IF files = {} THEN 0
    ELSE LET k == CHOOSE k \in files : TRUE
         IN OccurrencesIn(k, field, v) + SumOver(files \ {k}, field, v)

\* the count that a rendered distribution shows for value v
ShownCount(counts, v) ==
    IF \E j \in 1..Len(counts) : counts[j][1] = v
    THEN counts[CHOOSE j \in 1..Len(counts) : counts[j][1] = v][2]
    ELSE 0

\* C3 as stated, for a report that was rendered to its end: whenever a
\* processed file with rows has a column matching 'Domicile' (respectively
\* 'Legal Status') case-insensitively, the distribution of that field is
\* rendered instead of the "No ... column found" message, and it counts every
\* value of that column of every such file.
C3_AnalysisOfMatchedFields ==
    (pc = "done" /\ screen.outcome = "analysis" /\ screen.summary # "not_rendered") =>
        \A n \in {1, 2} :
            LET field == AnalysisFields[n]
            IN  (/\ FilesWith(field) # {}
                 /\ Len(Positions(all_data_df.columns, field)) <= 1)
                => /\ screen.sections[n].kind = "distribution"
                   /\ \A v \in {"IE", "LU"} :
                        SumOver(FilesWith(field), field, v) =
                            ShownCount(screen.sections[n].counts, v)

\* ------------------------------------------------------------------------
\* C4
\* ------------------------------------------------------------------------
\* C4 as stated: a run ends in exactly one of three ways.  Without uploads
\* only the prompt is shown and nothing was processed; the warning "No data
\* could be processed" is shown exactly when files were uploaded and
\* processed_files_count = 0; otherwise the analysis is shown with
\* "Successfully processed N file(s)", N = processed_files_count >= 1.
C4_ThreeOutcomes ==
    pc = "done" =>
        /\ screen.outcome \in {"prompt", "warning", "analysis"}
        /\ screen.outcome = "prompt"
             <=> (uploaded_files = <<>>)
        /\ uploaded_files = <<>>
             => (log = <<>> /\ processed_files_count = 0 /\ all_data_df = EmptyDataFrame)
        /\ screen.outcome = "warning"
             <=> (uploaded_files # <<>> /\ processed_files_count = 0)
        /\ screen.outcome = "analysis"
             => (screen.success_n = processed_files_count /\ processed_files_count >= 1)

\* ------------------------------------------------------------------------
\* C5
\* ------------------------------------------------------------------------
\* C5 as stated: every header that the summary line "The following common
\* headers were found and extracted from at least one file" lists, which is
\* every element of found_headers_across_files at the end of the loop, is a
\* column of all_data_df that some successfully processed file contributed
\* (stated for the runs whose consolidated table has no repeated label, the
\* ones in which every build of the page reaches the summary).
C5_FoundHeadersWereExtracted ==
    (/\ pc = "done" /\ screen.outcome = "analysis" /\ screen.summary = "headers"
     /\ ~HasDuplicates(all_data_df.columns)) =>
        \A h \in screen.summary_headers :
            /\ h \in Labels(all_data_df.columns)
            /\ \E k \in 1..Len(log) :
                 Succeeded(k) /\ h \in Labels(log[k].extracted)

\* ------------------------------------------------------------------------
\* C6
\* ------------------------------------------------------------------------
\* C6: an iteration that ends in the except branch leaves all_data_df and
\* processed_files_count as they were, and the loop goes on with the next
\* file, if there is one.
C6_ErrorLeavesStateAndLoopGoesOn ==
    [][(pc = "loop" /\ Len(log') = Len(log) + 1 /\ log'[Len(log')].outcome = "error")
       => /\ all_data_df' = all_data_df
          /\ processed_files_count' = processed_files_count
          /\ i' = i + 1
          /\ (i' < Len(uploaded_files) => pc' = "loop")]_vars

\* a file ended in the except branch (its sheet was read, the exception came
\* from the header line), and the file after it was processed successfully
C6_Witness ==
    \E k, m \in 1..Len(log) :
        /\ k < m
        /\ log[k].outcome = "error"
        /\ ~reads[k].raises
        /\ reads[k].df.rows # <<>>
        /\ Succeeded(m)
        /\ reads[m].df.rows # <<>>
        /\ Len(all_data_df.rows) = Len(reads[m].df.rows)

====
